---- MODULE Spec2Model ----
(***************************************************************************)
(* Offline sync engine of ChatterFix CMMS: api/sync_endpoints.py           *)
(* (SyncManager and the /api/sync endpoints) over the repositories of      *)
(* database/repositories.py and the PostgreSQL schema of                   *)
(* api/alembic/versions/001_initial_chatterfix_schema.py.                  *)
(*                                                                         *)
(* A row of an entity table is reduced to its key and its updated_at       *)
(* column; 0 stands for NULL / no such column (the clock starts at 0 and   *)
(* the first statement runs at 1, so 0 is never a written timestamp).      *)
(* uuid4() is a counter: the n-th generated id is n.  An id a client made  *)
(* up itself is drawn from ClientChosenIds, which uuid4() never returns.   *)
(***************************************************************************)
EXTENDS Integers, Sequences, FiniteSets, TLC

VARIABLES
    store,          \* rows of the entity tables: set of [table, id, updated_at]
    clock,          \* CURRENT_TIMESTAMP of the last statement that wrote a row
    gen,            \* number of uuid4() ids generated for entity rows
    ledger,         \* rows of sync_status
    pc,             \* per client: position of its /batch request
    request,        \* per client: ids of request.operations, in submitted order
    idx,            \* per client: next iteration of the for loop (1-based)
    processed,      \* per client: local list `processed`
    failed,         \* per client: local list `failed`
    server_changes, \* per client: local list `server_changes`
    resp,           \* per client: what the last /batch request returned
    visited,        \* history: list positions handled by the loop, in order
    okpos,          \* history: list positions whose operation was processed
    bound,          \* per client and operation id: the operation the request
                    \*   carries under that id, while the id is still to come
    obs,            \* history: what the operation at the current list
                    \*   position met and did
    pull,           \* history: the last_sync the request's delta query ran with
    available,      \* can the database be reached
    upd,            \* per request handler: an operation in flight, between
                    \*   the awaits of _handle_create and _handle_update
    wrote,          \* history, per client: the row versions the processed
                    \*   operations of its request wrote
    sync_timestamp, \* per client: sync_timestamp of the last SyncResponse
    reply,          \* what the last /status or /resolve-conflicts request
                    \*   returned
    mgr             \* DatabaseManager: its pool, its lock and the callers of
                    \*   initialize() and get_connection()

vars == <<store, clock, gen, ledger, pc, request, idx, processed, failed,
          server_changes, resp, visited, okpos, bound, obs, pull, available, upd,
          wrote, sync_timestamp, reply, mgr>>

-----------------------------------------------------------------------------
(* Bounds *)

MaxClock == 2
MaxBatchLen == 2
NumOpIds == 2
MaxLedger == 2
MaxUpdateClock == 3
MaxStatusRows == 3
MaxConflicts == 1
MaxAttempts == 3

-----------------------------------------------------------------------------
(* Static structure *)

SyncClients == {"c1"}

OpIds == 1..NumOpIds

ClientChosenIds == {0}

\* SyncManager.__init__: the five registered tables
Tables == {"work_orders", "pm_tasks", "pm_schedule", "cost_entries", "assets"}

\* table names a request can carry: the registered ones and one that is not
TableNames == Tables \cup {"users"}

\* hasattr(repo, ...) for the repository registered under each table
HasGetById == {"work_orders", "pm_tasks", "assets"}
HasCreate == {"work_orders", "pm_tasks", "cost_entries"}
HasUpdate == {"work_orders"}
HasDelete == {"work_orders"}

\* tables with an updated_at column
HasUpdatedAt == {"work_orders", "pm_tasks", "pm_schedule", "assets"}

Operations == {"CREATE", "UPDATE", "DELETE"}

\* SyncOperation.data: None, a dict without the fields create() indexes and
\* without any updatable column, or a dict with them
Payloads == {"NoData", "EmptyData", "FullData"}

NoOp == [operation |-> "NONE", table_name |-> "", record_id |-> 0,
         data |-> "NoData", client_timestamp |-> 0]

Unbound == [op |-> NoOp, applied |-> FALSE]

\* no delta query has run for the request
NoPull == [asked |-> FALSE, null |-> FALSE, since |-> 0, day_start |-> 0,
           raised |-> FALSE]

NoObs == [operation |-> "NONE", table_name |-> "", data |-> "NoData",
          existed |-> FALSE,
          newer |-> FALSE, outcome |-> "none", error |-> "",
          changed |-> FALSE, advanced |-> FALSE, found |-> 0,
          replay |-> FALSE, own |-> FALSE]

\* the requests whose operation is followed statement by statement
Handlers == {"h1", "h2"}

\* no operation in flight
NoUpdate == [pc |-> "idle", op |-> NoOp, current |-> {}, ok |-> FALSE,
             exc |-> "", hops |-> 0]

\* no /status or /resolve-conflicts request has returned
NoReply == [endpoint |-> "none"]

\* the coroutines that call initialize() or get_connection()
Callers == {"k1", "k2"}

\* a coroutine outside both calls
IdleCaller == [pc |-> "idle", call |-> "none", result |-> "none", conn |-> 0]

\* DatabaseManager.__init__: pool None (0), lock free; made and attempts
\* count the pools create_pool returned and the calls of create_pool
NoManager == [pool |-> 0, lock |-> "free", made |-> 0, attempts |-> 0,
              callers |-> [k \in Callers |-> IdleCaller]]

SeqsUpTo(S, n) == UNION {[1..k -> S] : k \in 0..n}

-----------------------------------------------------------------------------
(* The record store: one database state D = [store, clock, gen, up]; up is  *)
(* FALSE when no connection can be had and every statement raises          *)

DB(s, now, g) == [store |-> s, clock |-> now, gen |-> g, up |-> TRUE]

Unreachable(D) == [D EXCEPT !.up = FALSE]

\* datetime.now() of a response: not before the CURRENT_TIMESTAMP of any
\* statement that has run, and before that of any statement still to run
Now(now) == now

Rows(s, t, id) == {r \in s : r.table = t /\ r.id = id}

\* column default CURRENT_TIMESTAMP of updated_at, where the column exists
StampFor(t, now) == IF t \in HasUpdatedAt THEN now ELSE 0

\* a call's return: a value, or an exception raised; hops counts the
\* hand-overs between _handle_create and _handle_update before it
Ret(D, b) == [ok |-> b, exc |-> "", db |-> D, hops |-> 0]
Raise(D, e) == [ok |-> FALSE, exc |-> e, db |-> D, hops |-> 0]
WithHops(r, depth) == [r EXCEPT !.hops = depth]

\* repo.get_by_id: the row as a set, {} for None
GetById(D, t, id) == Rows(D.store, t, id)

\* mutant of NewId: every row gets the same key
NewIdRepeats(g) == 1

\* str(uuid.uuid4()): an id no row has had
NewId(g) == g + 1

\* INSERT ... VALUES (uuid4(), ...) RETURNING *
InsertRow(D, t) ==
    DB(D.store \cup {[table |-> t, id |-> NewId(D.gen),
                      updated_at |-> StampFor(t, D.clock + 1)]},
       D.clock + 1, D.gen + 1)

\* repo.create(data): data['id'] is not read; the key is a fresh uuid4()
RepoCreate(D, t, data) ==
    IF data = "EmptyData" THEN Raise(D, "KeyError")
    ELSE IF ~D.up THEN Raise(D, "ConnectionError")
    ELSE Ret(InsertRow(D, t), TRUE)

\* UPDATE t SET ..., updated_at = CURRENT_TIMESTAMP WHERE id = $1 RETURNING *
TouchRow(D, t, id) ==
    DB((D.store \ Rows(D.store, t, id))
          \cup {[table |-> t, id |-> id, updated_at |-> D.clock + 1]},
       D.clock + 1, D.gen)

\* WorkOrderRepository.update
RepoUpdate(D, t, id, data) ==
    IF data = "NoData" THEN Raise(D, "AttributeError")
    ELSE IF data = "EmptyData" THEN Ret(D, FALSE)
    ELSE IF ~D.up THEN Raise(D, "ConnectionError")
    ELSE IF Rows(D.store, t, id) = {} THEN Ret(D, FALSE)
    ELSE Ret(TouchRow(D, t, id), TRUE)

\* WorkOrderRepository.delete: result == "DELETE 1"
RepoDelete(D, t, id) ==
    IF ~D.up THEN Raise(D, "ConnectionError")
    ELSE IF Rows(D.store, t, id) = {} THEN Ret(D, FALSE)
    ELSE Ret(DB(D.store \ Rows(D.store, t, id), D.clock, D.gen), TRUE)

-----------------------------------------------------------------------------
(* SyncManager *)

\* mutant of DetectConflicts: no conflict is ever detected
DetectConflictsNever(server_record, op) == FALSE

\* _detect_conflicts
DetectConflicts(server_record, op) ==
    /\ server_record.updated_at # 0
    /\ server_record.updated_at > op.client_timestamp

RECURSIVE HandleCreate(_, _, _)
RECURSIVE HandleUpdate(_, _, _)

\* _handle_create; depth counts the hand-overs between the two handlers
HandleCreate(D, op, depth) ==
    LET t == op.table_name
        existing == IF t \in HasGetById THEN GetById(D, t, op.record_id) ELSE {}
    IN  IF t \in HasGetById /\ ~D.up
             THEN WithHops(Raise(D, "ConnectionError"), depth)
        ELSE IF existing # {} THEN HandleUpdate(D, op, depth + 1)
        ELSE IF op.data = "NoData"
             THEN WithHops(Raise(D, "AttributeError"), depth)
        ELSE IF t \notin HasCreate
             THEN WithHops(Raise(D, "AttributeError"), depth)
        ELSE WithHops(RepoCreate(D, t, op.data), depth)

\* _handle_update
HandleUpdate(D, op, depth) ==
    LET t == op.table_name
        current == IF t \in HasGetById THEN GetById(D, t, op.record_id) ELSE {}
    IN  IF t \in HasGetById /\ ~D.up
             THEN WithHops(Raise(D, "ConnectionError"), depth)
        ELSE IF t \in HasGetById /\ current = {}
             THEN HandleCreate(D, op, depth + 1)
        ELSE IF t \in HasGetById
                /\ DetectConflicts(CHOOSE r \in current : TRUE, op)
             THEN WithHops(Ret(D, FALSE), depth)
        ELSE IF t \in HasUpdate
             THEN WithHops(RepoUpdate(D, t, op.record_id, op.data), depth)
        ELSE WithHops(Ret(D, FALSE), depth)

\* _handle_delete
HandleDelete(D, op) ==
    IF op.table_name \in HasDelete
    THEN RepoDelete(D, op.table_name, op.record_id)
    ELSE Ret(D, FALSE)

\* _process_single_operation
ProcessSingleOperation(D, op) ==
    IF op.table_name \notin Tables THEN Raise(D, "Unknown table")
    ELSE IF op.operation = "CREATE" THEN HandleCreate(D, op, 0)
    ELSE IF op.operation = "UPDATE" THEN HandleUpdate(D, op, 0)
    ELSE HandleDelete(D, op)

\* mutant of FailedEntry: an exception is logged and not recorded
FailedEntryDropsExceptions(op_id, r) ==
    IF r.exc = "" /\ ~r.ok
    THEN <<[operation_id |-> op_id,
            error |-> "Operation failed - no result returned"]>>
    ELSE <<>>

\* body of the for loop of process_client_operations: the entry appended to
\* `failed`, or none when the id goes to `processed`
FailedEntry(op_id, r) ==
    IF r.exc # "" THEN <<[operation_id |-> op_id, error |-> r.exc]>>
    ELSE IF ~r.ok
         THEN <<[operation_id |-> op_id,
                 error |-> "Operation failed - no result returned"]>>
    ELSE <<>>

\* mutant of IterPos: the list is walked from its end
IterPosReversed(k, n) == n + 1 - k

\* for operation in operations: the k-th iteration takes list position k
IterPos(k, n) == k

\* processed.append(operation.id)
AppendProcessed(list, op_id) == Append(list, op_id)

\* mutant of AfterFailure: a failure ends the loop
AbortAfterFailure(k, n) == n + 1

\* the except clause records the failure and the loop goes on
AfterFailure(k, n) == k + 1

-----------------------------------------------------------------------------
(* Initial state: empty database, no request in flight *)

Init ==
    /\ store = {}
    /\ clock = 0
    /\ gen = 0
    /\ ledger = {}
    /\ pc = [c \in SyncClients |-> "idle"]
    /\ request = [c \in SyncClients |-> <<>>]
    /\ idx = [c \in SyncClients |-> 1]
    /\ processed = [c \in SyncClients |-> <<>>]
    /\ failed = [c \in SyncClients |-> <<>>]
    /\ server_changes = [c \in SyncClients |-> <<>>]
    /\ resp = [c \in SyncClients |-> "none"]
    /\ visited = [c \in SyncClients |-> <<>>]
    /\ okpos = [c \in SyncClients |-> <<>>]
    /\ bound = [c \in SyncClients |-> [i \in OpIds |-> Unbound]]
    /\ obs = [c \in SyncClients |-> NoObs]
    /\ pull = [c \in SyncClients |-> NoPull]
    /\ available = TRUE
    /\ upd = [h \in Handlers |-> NoUpdate]
    /\ wrote = [c \in SyncClients |-> {}]
    /\ sync_timestamp = [c \in SyncClients |-> 0]
    /\ reply = NoReply
    /\ mgr = NoManager

-----------------------------------------------------------------------------
(* POST /api/sync/batch *)

\* the request arrives: results of process_client_operations start empty
SubmitBatch(c) ==
    /\ pc[c] = "idle"
    /\ \E ids \in SeqsUpTo(OpIds, MaxBatchLen) :
          request' = [request EXCEPT ![c] = ids]
    /\ pc' = [pc EXCEPT ![c] = IF request'[c] = <<>> THEN "changes" ELSE "loop"]
    /\ resp' = [resp EXCEPT ![c] = "none"]
    /\ sync_timestamp' = [sync_timestamp EXCEPT ![c] = 0]
    /\ UNCHANGED <<store, clock, gen, ledger, idx, processed, failed,
                   server_changes, visited, okpos, bound, obs, pull,
                   available, upd, wrote, reply, mgr>>

\* the fields of the operation at one list position.  An id the request
\* carried at an earlier position names the same operation again (the
\* operation is resubmitted); any other id carries fields of the client's
\* choosing
OperationsFor(c, op_id) ==
    IF bound[c][op_id] # Unbound THEN {bound[c][op_id].op}
    ELSE [operation : Operations,
          table_name : TableNames,
          record_id : ClientChosenIds \cup (1..gen),
          data : Payloads,
          client_timestamp : 0..MaxClock]

\* does the id come again at a position the loop has not reached
ComesAgain(c, pos, op_id) ==
    \E j \in 1..Len(request[c]) :
        /\ j # pos
        /\ \A k \in 1..Len(visited[c]) : visited[c][k] # j
        /\ request[c][j] = op_id

\* one iteration of the for loop of process_client_operations: the await of
\* _process_single_operation and the append that follows it
ProcessOp(c) ==
    /\ pc[c] = "loop"
    /\ LET n == Len(request[c])
           pos == IterPos(idx[c], n)
           op_id == request[c][pos]
       IN \E op \in OperationsFor(c, op_id) :
            LET D == IF available THEN DB(store, clock, gen)
                     ELSE Unreachable(DB(store, clock, gen))
                r == ProcessSingleOperation(D, op)
                good == r.exc = "" /\ r.ok
                before == Rows(store, op.table_name, op.record_id)
                after == Rows(r.db.store, op.table_name, op.record_id)
            IN  /\ r.db.clock <= MaxClock
                /\ store' = r.db.store
                /\ clock' = r.db.clock
                /\ gen' = r.db.gen
                /\ processed' = [processed EXCEPT ![c] =
                        IF good THEN AppendProcessed(@, op_id) ELSE @]
                /\ failed' = [failed EXCEPT ![c] = @ \o FailedEntry(op_id, r)]
                /\ visited' = [visited EXCEPT ![c] = Append(@, pos)]
                /\ okpos' = [okpos EXCEPT ![c] =
                        IF good THEN Append(@, pos) ELSE @]
                /\ bound' = [bound EXCEPT ![c][op_id] =
                        IF ComesAgain(c, pos, op_id)
                        THEN [op |-> op, applied |-> good \/ @.applied]
                        ELSE Unbound]
                /\ obs' = [obs EXCEPT ![c] =
                        [operation |-> op.operation,
                         table_name |-> op.table_name,
                         data |-> op.data,
                         existed |-> before # {},
                         newer |-> \E b \in before :
                                     b.updated_at > op.client_timestamp,
                         outcome |-> IF good THEN "processed" ELSE "failed",
                         error |-> IF r.exc # "" THEN r.exc
                                   ELSE IF ~r.ok THEN "no result" ELSE "",
                         changed |-> r.db.store # store,
                         advanced |-> \E b \in before : \E a \in after :
                                        a.updated_at > b.updated_at,
                         found |-> Cardinality(after),
                         replay |-> bound[c][op_id].applied,
                         own |-> \E w \in wrote[c] :
                                   /\ w.row \in before
                                   /\ w.operation = "UPDATE"
                                   /\ w.existed
                                   /\ w.client_timestamp
                                         <= op.client_timestamp]]
                /\ wrote' = [wrote EXCEPT ![c] =
                        IF good
                        THEN @ \cup {[row |-> x, operation |-> op.operation,
                                      existed |-> before # {},
                                      client_timestamp |-> op.client_timestamp] :
                                        x \in r.db.store \ store}
                        ELSE @]
    /\ pc' = [pc EXCEPT ![c] = "handled"]
    /\ UNCHANGED <<ledger, request, idx, server_changes, resp, pull,
                   available, upd, sync_timestamp, reply, mgr>>

\* the for loop moves to the next operation, or ends
NextIteration(c) ==
    /\ pc[c] = "handled"
    /\ LET n == Len(request[c])
           next == IF obs[c].outcome = "processed" THEN idx[c] + 1
                   ELSE AfterFailure(idx[c], n)
       IN  /\ idx' = [idx EXCEPT ![c] = next]
           /\ pc' = [pc EXCEPT ![c] = IF next > n THEN "changes" ELSE "loop"]
    /\ obs' = [obs EXCEPT ![c] = NoObs]
    /\ UNCHANGED <<store, clock, gen, ledger, request, processed, failed,
                   server_changes, resp, visited, okpos, bound, pull,
                   available, upd,
                   wrote, sync_timestamp, reply, mgr>>

-----------------------------------------------------------------------------
(* get_server_changes *)

\* LIMIT of the three queries
WorkOrdersLimit == 100
PMTasksLimit == 50
PMScheduleLimit == 100

\* ORDER BY updated_at DESC
RECURSIVE NewestFirst(_)
NewestFirst(S) ==
    IF S = {} THEN <<>>
    ELSE LET top == CHOOSE r \in S : \A o \in S : o.updated_at <= r.updated_at
         IN  <<top>> \o NewestFirst(S \ {top})

\* LIMIT n
Limit(seq, n) == IF Len(seq) <= n THEN seq ELSE SubSeq(seq, 1, n)

\* mutant of QueryUpdatedSince: WHERE updated_at >= $1
QueryUpdatedSinceInclusive(s, t, since, n) ==
    Limit(NewestFirst({r \in s : r.table = t /\ r.updated_at # 0
                                  /\ r.updated_at >= since}), n)

\* SELECT ... FROM t WHERE updated_at > $1 ORDER BY updated_at DESC LIMIT n
QueryUpdatedSince(s, t, since, n) ==
    Limit(NewestFirst({r \in s : r.table = t /\ r.updated_at # 0
                                  /\ r.updated_at > since}), n)

\* get_server_changes, last_sync already defaulted
ServerChanges(s, last_sync) ==
    QueryUpdatedSince(s, "work_orders", last_sync, WorkOrdersLimit)
    \o QueryUpdatedSince(s, "pm_tasks", last_sync, PMTasksLimit)
    \o QueryUpdatedSince(s, "pm_schedule", last_sync, PMScheduleLimit)

\* request.last_sync_timestamp: None (given = FALSE) or a time
LastSyncInputs ==
    {[given |-> FALSE, at |-> 0]} \cup {[given |-> TRUE, at |-> t] : t \in 0..MaxClock}

\* mutant of DefaultSince: a first sync gets the full history
DefaultSinceEpoch(last_sync, day_start) ==
    IF last_sync.given THEN last_sync.at ELSE 0

\* `if not last_sync`: the start of the server's current day instead
DefaultSince(last_sync, day_start) ==
    IF last_sync.given THEN last_sync.at ELSE day_start

\* the day started at some instant not after now; the first query that
\* raises ends the try block and the changes collected so far are returned
GetServerChanges(c) ==
    /\ pc[c] = "changes"
    /\ \E last_sync \in LastSyncInputs : \E day_start \in 0..clock :
          /\ server_changes' =
                [server_changes EXCEPT ![c] =
                    IF available
                    THEN ServerChanges(store,
                                       DefaultSince(last_sync, day_start))
                    ELSE <<>>]
          /\ pull' = [pull EXCEPT ![c] =
                [asked |-> TRUE, null |-> ~last_sync.given,
                 since |-> DefaultSince(last_sync, day_start),
                 day_start |-> IF last_sync.given THEN 0 ELSE day_start,
                 raised |-> ~available]]
    /\ pc' = [pc EXCEPT ![c] = "ledger"]
    /\ UNCHANGED <<store, clock, gen, ledger, request, idx, processed, failed,
                   resp, visited, okpos, bound, obs, available, upd,
                   wrote, sync_timestamp, reply, mgr>>

-----------------------------------------------------------------------------
(* sync_status *)

\* a query argument: a uuid (the n-th generated one) or any other string
Uuid(n) == [kind |-> "uuid", text |-> "", num |-> n]
Text(str) == [kind |-> "text", text |-> str, num |-> 0]

\* the uuid columns of sync_status (id, record_id) take a UUID or a string
\* that parses as one
IsUUID(v) == v.kind = "uuid"

\* INSERT INTO sync_status (...) VALUES ($1, $2, $3, $4, $5, true, now)
\* ON CONFLICT (id) DO UPDATE SET synced = true, synced_at = now
SyncStatusUpsert(L, row) ==
    IF ~IsUUID(row.id) \/ ~IsUUID(row.record_id)
    THEN [exc |-> "DataError", ledger |-> L]
    ELSE [exc |-> "",
          ledger |-> {l \in L : l.id # row.id} \cup {row}]

\* the row sync_batch_operations writes for a processed operation
BatchRow(c, n, now) ==
    [id |-> Uuid(n), table_name |-> "batch", record_id |-> Text("batch"),
     operation |-> "SYNC", client_id |-> c, synced |-> TRUE,
     synced_at |-> now, retry_count |-> 0, error_message |-> ""]

\* the writes of `for op_id in results["processed"]`, up to the first that
\* raises
RECURSIVE RecordProcessed(_, _, _, _)
RecordProcessed(L, c, ids, now) ==
    IF ids = <<>> THEN [exc |-> "", ledger |-> L]
    ELSE LET w == SyncStatusUpsert(L, BatchRow(c, Cardinality(L) + 1, now))
         IN  IF w.exc # "" THEN w
             ELSE RecordProcessed(w.ledger, c, Tail(ids), now)

\* mutant of RequestError: the except clause undoes the newest write
RequestErrorRollsBack(s, now) == {r \in s : r.updated_at # now}

\* except clause of sync_batch_operations: log and raise HTTPException(500).
\* Every statement before it ran on its own connection outside a
\* transaction, so the rows stay as they are
RequestError(s, now) == s

\* ledger writes, then the SyncResponse, or HTTP 500 from the except clause
FinishBatch(c) ==
    /\ pc[c] = "ledger"
    /\ LET w == IF ~available /\ processed[c] # <<>>
                THEN [exc |-> "ConnectionError", ledger |-> ledger]
                ELSE RecordProcessed(ledger, c, processed[c], clock)
       IN  /\ ledger' = w.ledger
           /\ resp' = [resp EXCEPT ![c] =
                        IF w.exc # "" THEN "500"
                        ELSE IF failed[c] = <<>> THEN "200 success"
                        ELSE "200 failures"]
           /\ store' = IF w.exc # "" THEN RequestError(store, clock) ELSE store
           /\ sync_timestamp' = [sync_timestamp EXCEPT ![c] =
                        IF w.exc # "" THEN 0 ELSE Now(clock)]
    /\ pc' = [pc EXCEPT ![c] = "idle"]
    /\ request' = [request EXCEPT ![c] = <<>>]
    /\ idx' = [idx EXCEPT ![c] = 1]
    /\ processed' = [processed EXCEPT ![c] = <<>>]
    /\ failed' = [failed EXCEPT ![c] = <<>>]
    /\ server_changes' = [server_changes EXCEPT ![c] = <<>>]
    /\ visited' = [visited EXCEPT ![c] = <<>>]
    /\ okpos' = [okpos EXCEPT ![c] = <<>>]
    /\ bound' = [bound EXCEPT ![c] = [i \in OpIds |-> Unbound]]
    /\ pull' = [pull EXCEPT ![c] = NoPull]
    /\ wrote' = [wrote EXCEPT ![c] = {}]
    /\ UNCHANGED <<clock, gen, obs, available, upd, reply, mgr>>

-----------------------------------------------------------------------------
(* Other writers of the entity tables: the REST handlers of api/main_db.py  *)
(* and the seed script                                                      *)

\* create_work_order, create_pm_task, create_cost_entry: repo.create with a
\* body that has the fields it indexes
RestCreate(t) ==
    /\ available
    /\ clock < MaxClock
    /\ LET r == RepoCreate(DB(store, clock, gen), t, "FullData")
       IN  /\ store' = r.db.store
           /\ clock' = r.db.clock
           /\ gen' = r.db.gen
    /\ UNCHANGED <<ledger, pc, request, idx, processed, failed,
                   server_changes, resp, visited, okpos, bound, obs, pull,
                   available, upd,
                   wrote, sync_timestamp, reply, mgr>>

\* the seed script's INSERT INTO assets and INSERT INTO pm_schedule
SeedInsert(t) ==
    /\ available
    /\ clock < MaxClock
    /\ LET D == InsertRow(DB(store, clock, gen), t)
       IN  /\ store' = D.store
           /\ clock' = D.clock
           /\ gen' = D.gen
    /\ UNCHANGED <<ledger, pc, request, idx, processed, failed,
                   server_changes, resp, visited, okpos, bound, obs, pull,
                   available, upd,
                   wrote, sync_timestamp, reply, mgr>>

\* PUT /api/work-orders/{id}: WorkOrderRepository.update with a body
UpdateWorkOrder(id) ==
    /\ available
    /\ clock < MaxClock
    /\ Rows(store, "work_orders", id) # {}
    /\ LET r == RepoUpdate(DB(store, clock, gen), "work_orders", id, "FullData")
       IN  /\ store' = r.db.store
           /\ clock' = r.db.clock
           /\ gen' = r.db.gen
    /\ UNCHANGED <<ledger, pc, request, idx, processed, failed,
                   server_changes, resp, visited, okpos, bound, obs, pull,
                   available, upd,
                   wrote, sync_timestamp, reply, mgr>>

\* POST /api/preventive-maintenance/complete:
\* PMScheduleRepository.complete_scheduled_task
CompletePMTask(id) ==
    /\ available
    /\ clock < MaxClock
    /\ Rows(store, "pm_schedule", id) # {}
    /\ LET D == TouchRow(DB(store, clock, gen), "pm_schedule", id)
       IN  /\ store' = D.store
           /\ clock' = D.clock
           /\ gen' = D.gen
    /\ UNCHANGED <<ledger, pc, request, idx, processed, failed,
                   server_changes, resp, visited, okpos, bound, obs, pull,
                   available, upd,
                   wrote, sync_timestamp, reply, mgr>>

-----------------------------------------------------------------------------
(* Other readers and writers of sync_status *)

\* sum(d.values())
RECURSIVE SumValues(_)
SumValues(d) ==
    IF DOMAIN d = {} THEN 0
    ELSE LET k == CHOOSE x \in DOMAIN d : TRUE
         IN  d[k] + SumValues([x \in DOMAIN d \ {k} |-> d[x]])

\* mutant of GetSyncStatus: the queries leave out `client_id = $1`
GetSyncStatusAllClients(L, c) ==
    LET pending == {l \in L : ~l.synced}
        done == {l \in L : l.synced /\ l.synced_at # 0}
        by_table == [t \in {l.table_name : l \in pending} |->
                        Cardinality({l \in pending : l.table_name = t})]
    IN  [pending_operations |-> by_table,
         total_pending |-> SumValues(by_table),
         last_sync |-> IF done = {} THEN 0
                       ELSE CHOOSE t \in {l.synced_at : l \in done} :
                               \A l \in done : l.synced_at <= t,
         status |-> IF DOMAIN by_table = {} THEN "up_to_date"
                    ELSE "pending_sync"]

\* get_sync_status: COUNT(*) of the client's pending rows GROUP BY
\* table_name, the sum of the counts, MAX(synced_at) of its synced rows (0
\* for None; MAX skips NULL) and the status text
GetSyncStatus(L, c) ==
    LET pending == {l \in L : l.client_id = c /\ ~l.synced}
        done == {l \in L : l.client_id = c /\ l.synced /\ l.synced_at # 0}
        by_table == [t \in {l.table_name : l \in pending} |->
                        Cardinality({l \in pending : l.table_name = t})]
    IN  [pending_operations |-> by_table,
         total_pending |-> SumValues(by_table),
         last_sync |-> IF done = {} THEN 0
                       ELSE CHOOSE t \in {l.synced_at : l \in done} :
                               \A l \in done : l.synced_at <= t,
         status |-> IF DOMAIN by_table = {} THEN "up_to_date"
                    ELSE "pending_sync"]

\* a pending entry of the ledger: a sync_status row left at the column
\* defaults (synced false, synced_at NULL, retry_count 0, no error_message)
PendingRow(c, n, t, k) ==
    [id |-> Uuid(n), table_name |-> t, record_id |-> Uuid(k),
     operation |-> "UPDATE", client_id |-> c, synced |-> FALSE,
     synced_at |-> 0, retry_count |-> 0, error_message |-> ""]

\* an operation is entered in the ledger as pending
RecordPending(c) ==
    /\ available
    /\ Cardinality(ledger) < MaxLedger
    /\ \E k \in ClientChosenIds \cup (1..gen) :
          ledger' = ledger
             \cup {PendingRow(c, Cardinality(ledger) + 1, "work_orders", k)}
    /\ UNCHANGED <<store, clock, gen, pc, request, idx, processed, failed,
                   server_changes, resp, visited, okpos, bound, obs, pull,
                   available, upd,
                   wrote, sync_timestamp, reply, mgr>>

\* UPDATE sync_status SET synced = true, synced_at = CURRENT_TIMESTAMP,
\* error_message = 'Resolved: server_wins' WHERE record_id = $1 AND
\* table_name = $2
ResolveUpdate(L, record_id, table_name, now) ==
    IF ~IsUUID(record_id) THEN [exc |-> "DataError", ledger |-> L]
    ELSE [exc |-> "",
          ledger |-> {IF l.record_id = record_id /\ l.table_name = table_name
                      THEN [l EXCEPT !.synced = TRUE, !.synced_at = now,
                                     !.error_message = "Resolved: server_wins"]
                      ELSE l : l \in L}]

Strategies == {"server_wins", "client_wins", "merge", "manual"}

\* what a conflict of the request body can name
ConflictInputs ==
    [record_id : {Uuid(k) : k \in ClientChosenIds \cup (1..gen)}
                    \cup {Text("x")},
     table_name : {"work_orders", "users"}]

\* the entry appended to resolved_conflicts
ResolvedEntry(conflict, strategy) ==
    [record_id |-> conflict.record_id, table_name |-> conflict.table_name,
     resolution |-> strategy]

\* for conflict in conflicts: the UPDATE when the strategy is server_wins,
\* nothing for the other strategies, then the append; the first statement
\* that raises ends the loop
RECURSIVE ResolveAll(_, _, _, _)
ResolveAll(L, conflicts, strategy, now) ==
    IF conflicts = <<>>
    THEN [exc |-> "", ledger |-> L, resolved_conflicts |-> <<>>, clock |-> now]
    ELSE LET conflict == Head(conflicts)
             w == IF strategy = "server_wins"
                  THEN ResolveUpdate(L, conflict.record_id,
                                     conflict.table_name, now + 1)
                  ELSE [exc |-> "", ledger |-> L]
             then == IF strategy = "server_wins" THEN now + 1 ELSE now
         IN  IF w.exc # ""
             THEN [exc |-> w.exc, ledger |-> L, resolved_conflicts |-> <<>>,
                   clock |-> now]
             ELSE LET rest == ResolveAll(w.ledger, Tail(conflicts), strategy,
                                         then)
                  IN  [rest EXCEPT !.resolved_conflicts =
                          <<ResolvedEntry(conflict, strategy)>> \o @]

\* POST /api/sync/resolve-conflicts: the loop, then the body with
\* resolved_conflicts, or HTTP 500 from the except clause with the
\* statements before the failing one left as they ran
ResolveConflicts ==
    /\ available
    /\ \E conflicts \in SeqsUpTo(ConflictInputs, MaxConflicts) :
       \E strategy \in Strategies :
          LET r == ResolveAll(ledger, conflicts, strategy, clock)
          IN  /\ r.clock <= MaxUpdateClock
              /\ ledger' = r.ledger
              /\ clock' = r.clock
              /\ reply' = [endpoint |-> "resolve",
                           conflicts |-> conflicts,
                           status |-> IF r.exc = "" THEN "200" ELSE "500",
                           resolved_conflicts |-> r.resolved_conflicts,
                           resolution_strategy |-> strategy,
                           timestamp |-> Now(r.clock)]
    /\ UNCHANGED <<store, gen, pc, request, idx, processed, failed,
                   server_changes, resp, visited, okpos, bound, obs, pull,
                   available, upd, wrote, sync_timestamp, mgr>>

\* the row sync_ping writes
PingRow(c, n) ==
    [id |-> Uuid(n), table_name |-> "ping", record_id |-> Text("ping"),
     operation |-> "PING", client_id |-> c, synced |-> TRUE,
     synced_at |-> 0, retry_count |-> 0, error_message |-> ""]

\* INSERT INTO sync_status (...) VALUES ($1, 'ping', 'ping', 'PING', $2, ...)
SyncStatusInsert(L, row) ==
    IF ~IsUUID(row.id) \/ ~IsUUID(row.record_id)
    THEN [exc |-> "DataError", ledger |-> L]
    ELSE [exc |-> "", ledger |-> L \cup {row}]

\* POST /api/sync/ping: the insert, or {"pong": False} when it raises
SyncPing(c) ==
    /\ ledger' = IF available
                  THEN SyncStatusInsert(ledger,
                          PingRow(c, Cardinality(ledger) + 1)).ledger
                  ELSE ledger
    /\ UNCHANGED <<store, clock, gen, pc, request, idx, processed, failed,
                   server_changes, resp, visited, okpos, bound, obs, pull,
                   available, upd,
                   wrote, sync_timestamp, reply, mgr>>

-----------------------------------------------------------------------------
(* Specification *)

Next ==
    \/ \E c \in SyncClients : SubmitBatch(c)
    \/ \E c \in SyncClients : ProcessOp(c)
    \/ \E c \in SyncClients : NextIteration(c)
    \/ \E c \in SyncClients : GetServerChanges(c)
    \/ \E c \in SyncClients : FinishBatch(c)
    \/ \E t \in HasCreate : RestCreate(t)
    \/ \E t \in {"assets", "pm_schedule"} : SeedInsert(t)
    \/ \E id \in 1..gen : UpdateWorkOrder(id)
    \/ \E id \in 1..gen : CompletePMTask(id)

Spec == Init /\ [][Next]_vars

\* the writers of the ledger outside /batch (whose INSERT raises and writes
\* no row), with work orders for the rows to name
NextLedger ==
    \/ RestCreate("work_orders")
    \/ \E c \in SyncClients : RecordPending(c)
    \/ ResolveConflicts
    \/ \E c \in SyncClients : SyncPing(c)

SpecLedger == Init /\ [][NextLedger]_vars

-----------------------------------------------------------------------------
(* GET /api/sync/status/{client_id} over the ledgers sync_status can hold   *)

\* the clients whose rows the ledger holds
StatusClients == {"c1", "c2"}

\* the table names of the rows
StatusTables == {"work_orders", "pm_tasks"}

\* what a row can be: of a client, for a table, pending or synced with
\* synced_at NULL or set
StatusKinds ==
    [client_id : StatusClients, table_name : StatusTables,
     state : {"pending", "synced_null", "synced"}]

\* the sync_status row with key n of a kind
StatusRow(n, k) ==
    [PendingRow(k.client_id, n, k.table_name, n)
        EXCEPT !.synced = k.state # "pending",
               !.synced_at = IF k.state = "synced" THEN 1 ELSE 0]

\* the ledgers of up to MaxStatusRows rows with the keys 1..MaxStatusRows
StatusLedgers ==
    UNION {{{StatusRow(n, f[n]) : n \in keys} : f \in [keys -> StatusKinds]} :
              keys \in SUBSET (1..MaxStatusRows)}

\* any such ledger, at time 1
InitStatus ==
    /\ ledger \in StatusLedgers
    /\ clock = 1
    /\ store = {}
    /\ gen = 0
    /\ pc = [c \in SyncClients |-> "idle"]
    /\ request = [c \in SyncClients |-> <<>>]
    /\ idx = [c \in SyncClients |-> 1]
    /\ processed = [c \in SyncClients |-> <<>>]
    /\ failed = [c \in SyncClients |-> <<>>]
    /\ server_changes = [c \in SyncClients |-> <<>>]
    /\ resp = [c \in SyncClients |-> "none"]
    /\ visited = [c \in SyncClients |-> <<>>]
    /\ okpos = [c \in SyncClients |-> <<>>]
    /\ bound = [c \in SyncClients |-> [i \in OpIds |-> Unbound]]
    /\ obs = [c \in SyncClients |-> NoObs]
    /\ pull = [c \in SyncClients |-> NoPull]
    /\ available = TRUE
    /\ upd = [h \in Handlers |-> NoUpdate]
    /\ wrote = [c \in SyncClients |-> {}]
    /\ sync_timestamp = [c \in SyncClients |-> 0]
    /\ reply = NoReply
    /\ mgr = NoManager

\* the request returns what get_sync_status builds
GetStatus(c) ==
    /\ reply' = [endpoint |-> "status", client_id |-> c,
                 body |-> GetSyncStatus(ledger, c)]
    /\ UNCHANGED <<store, clock, gen, ledger, pc, request, idx, processed,
                   failed, server_changes, resp, visited, okpos, bound, obs,
                   pull, available, upd, wrote, sync_timestamp, mgr>>

\* UPDATE sync_status SET synced = true, synced_at = CURRENT_TIMESTAMP
\* WHERE id = $1
MarkSynced(id) ==
    /\ clock < MaxUpdateClock
    /\ clock' = clock + 1
    /\ ledger' = {IF l.id = id
                  THEN [l EXCEPT !.synced = TRUE, !.synced_at = clock + 1]
                  ELSE l : l \in ledger}
    /\ UNCHANGED <<store, gen, pc, request, idx, processed, failed,
                   server_changes, resp, visited, okpos, bound, obs, pull,
                   available, upd, wrote, sync_timestamp, reply, mgr>>

NextStatus ==
    \/ \E c \in StatusClients : GetStatus(c)
    \/ \E n \in 1..MaxStatusRows : MarkSynced(Uuid(n))

SpecStatus == InitStatus /\ [][NextStatus]_vars

-----------------------------------------------------------------------------
(* _handle_create, _handle_update and _handle_delete statement by          *)
(* statement: the handlers of two requests interleave at the awaits of     *)
(* get_by_id, create, update and delete                                    *)

\* the frame of a step of one handler
HandlerFrame ==
    UNCHANGED <<ledger, pc, request, idx, processed, failed, server_changes,
                resp, visited, okpos, bound, obs, pull, available,
                wrote, sync_timestamp, reply, mgr>>

\* the table the interleaved operations are on: the one whose repository
\* has get_by_id, create, update and delete
ContendedTables == {"work_orders"}

\* _process_single_operation hands an UPDATE on a registered table to
\* _handle_update
StartUpdate(h) ==
    /\ upd[h].pc = "idle"
    /\ \E op \in [operation : {"UPDATE"},
                  table_name : ContendedTables,
                  record_id : ClientChosenIds \cup (1..gen),
                  data : Payloads,
                  client_timestamp : 0..MaxClock] :
          upd' = [upd EXCEPT ![h] =
                     [NoUpdate EXCEPT !.pc = "update_get", !.op = op]]
    /\ UNCHANGED <<store, clock, gen>>
    /\ HandlerFrame

\* _process_single_operation hands a CREATE on a registered table to
\* _handle_create
StartCreate(h) ==
    /\ upd[h].pc = "idle"
    /\ \E op \in [operation : {"CREATE"},
                  table_name : ContendedTables,
                  record_id : ClientChosenIds \cup (1..gen),
                  data : {"FullData"},
                  client_timestamp : {MaxClock}] :
          upd' = [upd EXCEPT ![h] =
                     [NoUpdate EXCEPT !.pc = "create_get", !.op = op]]
    /\ UNCHANGED <<store, clock, gen>>
    /\ HandlerFrame

\* _handle_create up to its next await: await repo.get_by_id; a record that
\* is there hands over to _handle_update, else data.copy() and on to create
CreateGet(h) ==
    /\ upd[h].pc = "create_get"
    /\ LET op == upd[h].op
           t == op.table_name
           D == DB(store, clock, gen)
           existing == IF t \in HasGetById THEN GetById(D, t, op.record_id)
                       ELSE {}
       IN  IF existing # {}
           THEN upd' = [upd EXCEPT ![h] =
                           [@ EXCEPT !.pc = "update_get", !.hops = @ + 1]]
           ELSE IF op.data = "NoData" \/ t \notin HasCreate
           THEN upd' = [upd EXCEPT ![h] =
                           [@ EXCEPT !.pc = "done", !.ok = FALSE,
                                     !.exc = "AttributeError"]]
           ELSE upd' = [upd EXCEPT ![h] = [@ EXCEPT !.pc = "insert"]]
    /\ UNCHANGED <<store, clock, gen>>
    /\ HandlerFrame

\* await repo.create
CreateInsert(h) ==
    /\ upd[h].pc = "insert"
    /\ LET op == upd[h].op
           r == RepoCreate(DB(store, clock, gen), op.table_name, op.data)
       IN  /\ r.db.clock <= MaxUpdateClock
           /\ store' = r.db.store
           /\ clock' = r.db.clock
           /\ gen' = r.db.gen
           /\ upd' = [upd EXCEPT ![h] =
                  [@ EXCEPT !.pc = "done", !.ok = r.ok, !.exc = r.exc]]
    /\ HandlerFrame

\* _handle_update up to its next await: await repo.get_by_id, then without
\* another await the conflict check; a missing record hands over to
\* _handle_create
UpdateGet(h) ==
    /\ upd[h].pc = "update_get"
    /\ LET op == upd[h].op
           t == op.table_name
           D == DB(store, clock, gen)
           current == IF t \in HasGetById THEN GetById(D, t, op.record_id)
                      ELSE {}
       IN  IF t \in HasGetById /\ current = {}
           THEN upd' = [upd EXCEPT ![h] =
                           [@ EXCEPT !.pc = "create_get", !.hops = @ + 1]]
           ELSE IF t \in HasGetById
                   /\ DetectConflicts(CHOOSE r \in current : TRUE, op)
           THEN upd' = [upd EXCEPT ![h] =
                           [@ EXCEPT !.pc = "done", !.current = current,
                                     !.ok = FALSE]]
           ELSE upd' = [upd EXCEPT ![h] =
                           [@ EXCEPT !.pc = "write", !.current = current]]
    /\ UNCHANGED <<store, clock, gen>>
    /\ HandlerFrame

\* await repo.update, where the repository has it
UpdateWrite(h) ==
    /\ upd[h].pc = "write"
    /\ LET op == upd[h].op
           D == DB(store, clock, gen)
           r == IF op.table_name \in HasUpdate
                THEN RepoUpdate(D, op.table_name, op.record_id, op.data)
                ELSE Ret(D, FALSE)
       IN  /\ r.db.clock <= MaxUpdateClock
           /\ store' = r.db.store
           /\ clock' = r.db.clock
           /\ gen' = r.db.gen
           /\ upd' = [upd EXCEPT ![h] =
                  [@ EXCEPT !.pc = "done", !.ok = r.ok, !.exc = r.exc]]
    /\ HandlerFrame

\* a DELETE of a work order: _handle_delete, await repo.delete
DeleteRecord(h) ==
    /\ upd[h].pc = "idle"
    /\ \E id \in 1..gen :
          LET op == [NoOp EXCEPT !.operation = "DELETE",
                                 !.table_name = "work_orders",
                                 !.record_id = id]
              r == HandleDelete(DB(store, clock, gen), op)
          IN  /\ store' = r.db.store
              /\ clock' = r.db.clock
              /\ gen' = r.db.gen
              /\ upd' = [upd EXCEPT ![h] =
                     [NoUpdate EXCEPT !.pc = "done", !.op = op, !.ok = r.ok,
                                      !.exc = r.exc]]
    /\ HandlerFrame

\* the result is back in process_client_operations
FinishUpdate(h) ==
    /\ upd[h].pc = "done"
    /\ upd' = [upd EXCEPT ![h] = NoUpdate]
    /\ UNCHANGED <<store, clock, gen>>
    /\ HandlerFrame

NextConcurrent ==
    \/ \E h \in Handlers : StartUpdate(h)
    \/ \E h \in Handlers : StartCreate(h)
    \/ \E h \in Handlers : CreateGet(h)
    \/ \E h \in Handlers : CreateInsert(h)
    \/ \E h \in Handlers : UpdateGet(h)
    \/ \E h \in Handlers : UpdateWrite(h)
    \/ \E h \in Handlers : DeleteRecord(h)
    \/ \E h \in Handlers : FinishUpdate(h)
    \/ \E t \in ContendedTables : RestCreate(t)

SpecConcurrent == Init /\ [][NextConcurrent]_vars

-----------------------------------------------------------------------------
(* DatabaseManager.initialize and get_connection, between their awaits     *)

\* the frame of a step of the manager
PoolFrame ==
    UNCHANGED <<store, clock, gen, ledger, pc, request, idx, processed,
                failed, server_changes, resp, visited, okpos, bound, obs,
                pull, available, upd, wrote, sync_timestamp, reply>>

\* mutant of RecheckUnderLock: the pool is not looked at again under the lock
NoRecheckUnderLock(pool) == FALSE

\* `if self.pool is not None: return` inside `async with self._lock`
RecheckUnderLock(pool) == pool # 0

\* initialize() has returned to caller k: initialize() itself ends, and
\* get_connection goes on to self.pool.acquire() with the pool set now
Returned(m, k) ==
    [m EXCEPT !.callers[k] =
        [@ EXCEPT !.pc = "returned", !.result = "ok",
                  !.conn = IF m.callers[k].call = "get_connection"
                          THEN m.pool ELSE 0]]

\* caller k holds the lock: the second look at the pool, then the await of
\* asyncpg.create_pool
UnderLock(m, k) ==
    IF RecheckUnderLock(m.pool)
    THEN Returned([m EXCEPT !.lock = "free"], k)
    ELSE [m EXCEPT !.lock = k, !.attempts = @ + 1,
                   !.callers[k].pc = "creating"]

\* initialize() up to its first suspension: the first look at the pool,
\* then the lock, taken at once when it is free
Enter(m, k) ==
    IF m.pool # 0 THEN Returned(m, k)
    ELSE IF m.lock = "free" THEN UnderLock(m, k)
    ELSE [m EXCEPT !.callers[k].pc = "waiting"]

\* a coroutine calls initialize()
CallInitialize(k) ==
    /\ mgr.callers[k].pc = "idle"
    /\ (mgr.attempts < MaxAttempts \/ mgr.pool # 0)
    /\ mgr' = Enter([mgr EXCEPT !.callers[k].call = "initialize"], k)
    /\ PoolFrame

\* a coroutine calls get_connection(): `if not self.pool: await
\* self.initialize()`, then self.pool.acquire()
CallGetConnection(k) ==
    /\ mgr.callers[k].pc = "idle"
    /\ (mgr.attempts < MaxAttempts \/ mgr.pool # 0)
    /\ mgr' = Enter([mgr EXCEPT !.callers[k].call = "get_connection"], k)
    /\ PoolFrame

\* the lock is free and a coroutine waiting for it gets it
LockAcquired(k) ==
    /\ mgr.callers[k].pc = "waiting"
    /\ mgr.lock = "free"
    /\ (mgr.attempts < MaxAttempts \/ mgr.pool # 0)
    /\ mgr' = UnderLock(mgr, k)
    /\ PoolFrame

\* asyncpg.create_pool returns and self.pool is assigned, or it raises: the
\* except clause logs and raises again, the lock is released
CreatePool(k) ==
    /\ mgr.callers[k].pc = "creating"
    /\ \E made \in BOOLEAN :
          mgr' = IF made
                 THEN [mgr EXCEPT !.pool = mgr.made + 1, !.made = @ + 1,
                                  !.callers[k].pc = "testing"]
                 ELSE [mgr EXCEPT !.lock = "free",
                                  !.callers[k].pc = "returned",
                                  !.callers[k].result = "create failed"]
    /\ PoolFrame

\* the test connection: self.pool.acquire() and SELECT version() pass and
\* initialize() returns, or one of them raises and the except clause raises
\* again with self.pool still assigned; the lock is released
TestConnection(k) ==
    /\ mgr.callers[k].pc = "testing"
    /\ \E passed \in BOOLEAN :
          mgr' = IF passed
                 THEN Returned([mgr EXCEPT !.lock = "free"], k)
                 ELSE [mgr EXCEPT !.lock = "free",
                                  !.callers[k].pc = "returned",
                                  !.callers[k].result = "test failed"]
    /\ PoolFrame

\* the caller is done with the call
CallEnds(k) ==
    /\ mgr.callers[k].pc = "returned"
    /\ mgr' = [mgr EXCEPT !.callers[k] = IdleCaller]
    /\ PoolFrame

NextPool ==
    \/ \E k \in Callers : CallInitialize(k)
    \/ \E k \in Callers : CallGetConnection(k)
    \/ \E k \in Callers : LockAcquired(k)
    \/ \E k \in Callers : CreatePool(k)
    \/ \E k \in Callers : TestConnection(k)
    \/ \E k \in Callers : CallEnds(k)

SpecPool == Init /\ [][NextPool]_vars

\* the database goes out of reach, and comes back
StoreGoesDown ==
    /\ available
    /\ available' = FALSE
    /\ UNCHANGED <<store, clock, gen, ledger, pc, request, idx, processed,
                   failed, server_changes, resp, visited, okpos, bound, obs,
                   pull, upd,
                   wrote, sync_timestamp, reply, mgr>>

StoreComesBack ==
    /\ ~available
    /\ available' = TRUE
    /\ UNCHANGED <<store, clock, gen, ledger, pc, request, idx, processed,
                   failed, server_changes, resp, visited, okpos, bound, obs,
                   pull, upd,
                   wrote, sync_timestamp, reply, mgr>>

\* the same as Spec with outages of the database
NextOutage ==
    \/ Next
    \/ StoreGoesDown
    \/ StoreComesBack

SpecOutage == Init /\ [][NextOutage]_vars

-----------------------------------------------------------------------------
(* Properties *)

\* the operation at the current list position went to `failed`, as its last
\* entry, and not to `processed`
WentToFailed(c) ==
    /\ obs[c].outcome = "failed"
    /\ failed[c] # <<>>
    /\ failed[c][Len(failed[c])].operation_id
          = request[c][visited[c][Len(visited[c])]]
    /\ Len(okpos[c]) = 0 \/ okpos[c][Len(okpos[c])] # visited[c][Len(visited[c])]

\* the operation at the current list position went to `processed`
WentToProcessed(c) ==
    /\ obs[c].outcome = "processed"
    /\ processed[c] # <<>>
    /\ processed[c][Len(processed[c])]
          = request[c][visited[c][Len(visited[c])]]
    /\ okpos[c] # <<>>
    /\ okpos[c][Len(okpos[c])] = visited[c][Len(visited[c])]

\* C1: an operation id that was already processed successfully and is
\* submitted again is reported in processed and leaves the store as it was
\* (the payload is not applied a second time, updated_at does not move).
C1_ReplayIsNoOp ==
    \A c \in SyncClients :
        obs[c].replay => (WentToProcessed(c) /\ ~obs[c].changed)

\* C2: resubmitting a CREATE that succeeded is reported in processed again
\* and the store holds exactly one record under the operation's record_id.
C2_RecreateKeepsOneRecord ==
    \A c \in SyncClients :
        (obs[c].replay /\ obs[c].operation = "CREATE")
            => (obs[c].outcome = "processed" /\ obs[c].found = 1)

\* C3: a processed CREATE whose record_id was not in the store leaves a
\* record under that record_id, so Get(entity, record_id) finds it.
C3_CreateKeepsClientId ==
    \A c \in SyncClients :
        (obs[c].operation = "CREATE" /\ ~obs[c].existed
         /\ obs[c].outcome = "processed")
            => obs[c].found = 1

\* C4: an UPDATE of an existing record whose server updated_at is greater
\* than the operation's client_timestamp goes to failed, not to processed,
\* and the store, the record's updated_at included, is unchanged.
C4_ConflictRejected ==
    \A c \in SyncClients :
        (obs[c].operation = "UPDATE" /\ obs[c].existed /\ obs[c].newer)
            => (WentToFailed(c) /\ ~obs[c].changed /\ ~obs[c].advanced)

\* C4 witness: an UPDATE of a work order met a newer server record and failed
C4_Witness ==
    \E c \in SyncClients :
        /\ obs[c].operation = "UPDATE"
        /\ obs[c].table_name = "work_orders"
        /\ obs[c].data = "FullData"
        /\ obs[c].existed
        /\ obs[c].newer
        /\ obs[c].outcome = "failed"

\* C5: for every registered entity, an UPDATE with a payload of an existing
\* record whose server updated_at is not greater than client_timestamp goes
\* to processed and the record's updated_at strictly increases.
C5_NoConflictApplies ==
    \A c \in SyncClients :
        (obs[c].operation = "UPDATE" /\ obs[c].table_name \in Tables
         /\ obs[c].data = "FullData" /\ obs[c].existed /\ ~obs[c].newer)
            => (obs[c].outcome = "processed" /\ obs[c].advanced)

\* the operations a client can send now
OperationInputs ==
    [operation : Operations, table_name : Tables,
     record_id : ClientChosenIds \cup (1..gen), data : Payloads,
     client_timestamp : 0..MaxClock]

\* two runs of _process_single_operation end alike: same outcome (processed
\* or failed), same store
SameOutcome(r1, r2) ==
    /\ (r1.exc = "" /\ r1.ok) = (r2.exc = "" /\ r2.ok)
    /\ r1.db.store = r2.db.store

\* C6: from any state, a CREATE whose record_id exists ends like the UPDATE
\* with the same record_id, payload and client_timestamp.
C6_CreateActsAsUpdate ==
    \A op \in OperationInputs :
        Rows(store, op.table_name, op.record_id) # {}
            => SameOutcome(
                 ProcessSingleOperation(DB(store, clock, gen),
                                        [op EXCEPT !.operation = "CREATE"]),
                 ProcessSingleOperation(DB(store, clock, gen),
                                        [op EXCEPT !.operation = "UPDATE"]))

\* C7: from any state, an UPDATE whose record_id does not exist ends like the
\* CREATE with the same record_id and payload, for every registered entity.
C7_UpdateActsAsCreate ==
    \A op \in OperationInputs :
        Rows(store, op.table_name, op.record_id) = {}
            => SameOutcome(
                 ProcessSingleOperation(DB(store, clock, gen),
                                        [op EXCEPT !.operation = "UPDATE"]),
                 ProcessSingleOperation(DB(store, clock, gen),
                                        [op EXCEPT !.operation = "CREATE"]))

\* C8: a DELETE whose record_id is not in the store goes to processed and
\* leaves the store unchanged.
C8_DeleteMissingSucceeds ==
    \A c \in SyncClients :
        (obs[c].operation = "DELETE" /\ obs[c].table_name \in Tables
         /\ ~obs[c].existed)
            => (obs[c].outcome = "processed" /\ ~obs[c].changed)

\* C9: every operation of a batch lands in exactly one of processed and
\* failed, so |processed| + |failed| = N when the loop ends; with one failure
\* the other N-1 are processed; the loop handles every list position, the
\* ones after a failure included.
C9_BatchPartialFailure ==
    \A c \in SyncClients :
        /\ Len(processed[c]) + Len(failed[c]) = Len(visited[c])
        /\ Len(okpos[c]) = Len(processed[c])
        /\ pc[c] \in {"changes", "ledger"} =>
              /\ Len(processed[c]) + Len(failed[c]) = Len(request[c])
              /\ {visited[c][k] : k \in 1..Len(visited[c])}
                    = 1..Len(request[c])
              /\ Len(failed[c]) = 1 =>
                    Len(processed[c]) = Len(request[c]) - 1

\* C9 witness: a batch of two whose first operation failed and whose second
\* was still handled and processed
C9_Witness ==
    \E c \in SyncClients :
        /\ pc[c] = "changes"
        /\ Len(request[c]) = 2
        /\ Len(failed[c]) = 1
        /\ okpos[c] = <<2>>

\* C10: the loop handles the list positions one at a time in submitted order
\* and the ids in processed keep the order of the submitted list.
C10_SubmissionOrder ==
    \A c \in SyncClients :
        /\ visited[c] = [k \in 1..Len(visited[c]) |-> k]
        /\ \A j \in 1..Len(okpos[c]) : \A k \in 1..Len(okpos[c]) :
              j < k => okpos[c][j] < okpos[c][k]
        /\ processed[c] = [j \in 1..Len(okpos[c]) |-> request[c][okpos[c][j]]]
        /\ pc[c] = "loop" => Len(visited[c]) = idx[c] - 1
        /\ pc[c] = "handled" => Len(visited[c]) = idx[c]

\* C10 witness: two operations with different ids, both processed
C10_Witness ==
    \E c \in SyncClients :
        /\ Len(processed[c]) = 2
        /\ processed[c][1] # processed[c][2]
        /\ processed[c] = request[c]

-----------------------------------------------------------------------------
(* Properties of the delta query *)

\* the entity types get_server_changes queries
Tracked == {"work_orders", "pm_tasks", "pm_schedule"}

LimitOf(t) ==
    CASE t = "work_orders" -> WorkOrdersLimit
      [] t = "pm_tasks" -> PMTasksLimit
      [] t = "pm_schedule" -> PMScheduleLimit

Min(a, b) == IF a <= b THEN a ELSE b

Range(seq) == {seq[i] : i \in 1..Len(seq)}

\* the rows of one entity type in a result list, in list order
OfTable(seq, t) == SelectSeq(seq, LAMBDA r : r.table = t)

\* a list is the n newest rows of the set `due`, newest first
NewestOf(list, due, n) ==
    /\ Range(list) \subseteq due
    /\ Len(list) = Min(Cardinality(due), n)
    /\ \A i \in 1..Len(list) : \A j \in 1..Len(list) :
          i < j => list[i].updated_at > list[j].updated_at
    /\ \A r \in due \ Range(list) :
          \A i \in 1..Len(list) : list[i].updated_at > r.updated_at

\* the step in which a request's delta query runs
PullStep(c) == pc[c] = "changes" /\ pc'[c] = "ledger"

\* C15: the delta query returns, per entity type it covers, exactly the rows
\* with updated_at strictly greater than the timestamp, newest first, cut to
\* the type's bound; a row with updated_at equal to the timestamp is left out.
\* The same holds of the query under any smaller LIMIT.
C15_DeltaPullResult ==
    [][\A c \in SyncClients : PullStep(c) =>
          \A t \in Tracked :
             LET due == {r \in store : r.table = t
                                        /\ r.updated_at > pull'[c].since}
             IN  /\ NewestOf(OfTable(server_changes'[c], t), due, LimitOf(t))
                 /\ \A n \in 0..MaxClock :
                       NewestOf(QueryUpdatedSince(store, t, pull'[c].since, n),
                                due, n)
                 /\ \A r \in Range(server_changes'[c]) : r.table \in Tracked
      ]_vars

\* C15 witness: the query returned a row and left out a row of a covered type
\* whose updated_at equals the timestamp
C15_Witness ==
    \E c \in SyncClients :
        /\ pc[c] = "ledger"
        /\ pull[c].asked
        /\ server_changes[c] # <<>>
        /\ \E r \in store :
              /\ r.table \in Tracked
              /\ r.updated_at = pull[c].since
              /\ r \notin Range(server_changes[c])

\* C16: a row of any registered entity type written after the timestamp is in
\* the result of the delta query.
C16_DeltaPullCoverage ==
    [][\A c \in SyncClients : PullStep(c) =>
          \A r \in store :
             (r.table \in Tables /\ r.updated_at > pull'[c].since)
                 => r \in Range(server_changes'[c])
      ]_vars

\* C17: with a null timestamp the delta query returns what it returns for the
\* start of the server's current day: of the entity types it covers, every
\* row written after that instant and no row last written at or before it.
C17_BoundedBootstrap ==
    [][\A c \in SyncClients : (PullStep(c) /\ pull'[c].null) =>
          Range(server_changes'[c])
             = {r \in store : r.table \in Tracked
                               /\ r.updated_at > pull'[c].day_start}
      ]_vars

\* C17 witness: a first sync whose day started after a row was last written
\* and before another was
C17_Witness ==
    \E c \in SyncClients :
        /\ pc[c] = "ledger"
        /\ pull[c].null
        /\ pull[c].day_start > 0
        /\ server_changes[c] # <<>>
        /\ \E r \in store :
              /\ r.table \in Tracked
              /\ r.updated_at # 0
              /\ r.updated_at <= pull[c].day_start
              /\ r \notin Range(server_changes[c])

-----------------------------------------------------------------------------
(* Properties of failure reporting *)

\* C18: an UPDATE rejected because the server record is newer than
\* client_timestamp is in failed with the reason CONFLICT.
C18_ConflictReason ==
    \A c \in SyncClients :
        (obs[c].operation = "UPDATE" /\ obs[c].table_name \in HasGetById
         /\ obs[c].existed /\ obs[c].newer /\ failed[c] # <<>>)
            => failed[c][Len(failed[c])].error = "CONFLICT"

\* the step in which the loop handles an operation on an unregistered table
UnknownTableStep(c) ==
    /\ pc[c] = "loop"
    /\ pc'[c] = "handled"
    /\ obs'[c].table_name \notin Tables

\* C19: an operation on an unregistered table goes to failed with an error
\* and to nothing else: store, clock, id generator, ledger and processed are
\* as they were, and the loop goes on to the operation after it.
C19_UnknownTableFailsAlone ==
    [][\A c \in SyncClients :
          /\ UnknownTableStep(c) =>
                /\ store' = store /\ clock' = clock /\ gen' = gen
                /\ ledger' = ledger
                /\ processed'[c] = processed[c]
                /\ Len(failed'[c]) = Len(failed[c]) + 1
                /\ failed'[c][Len(failed'[c])].operation_id
                      = request[c][idx[c]]
                /\ failed'[c][Len(failed'[c])].error # ""
          /\ (pc[c] = "handled" /\ obs[c].table_name \notin Tables
              /\ pc'[c] # "handled") =>
                /\ idx'[c] = idx[c] + 1
                /\ pc'[c] = IF idx[c] < Len(request[c]) THEN "loop"
                            ELSE "changes"
      ]_vars

\* C19 witness: a batch whose first operation named an unregistered table and
\* failed, and whose second operation was processed
C19_Witness ==
    \E c \in SyncClients :
        /\ pc[c] = "handled"
        /\ visited[c] = <<1, 2>>
        /\ okpos[c] = <<2>>
        /\ Len(failed[c]) = 1
        /\ failed[c][1].error = "Unknown table"
        /\ obs[c].outcome = "processed"

-----------------------------------------------------------------------------
(* Properties of the ledger *)

\* the step in which the ledger writes of a request run and it returns
FinishStep(c) == pc[c] = "ledger" /\ pc'[c] = "idle"

\* the key of the ledger row of an operation: its operation id
OperationKey(op_id) == [kind |-> "uuid", text |-> "operation", num |-> op_id]

\* C11: when a request returns, the ledger holds exactly one row per
\* (client, operation id) for every operation of the request, processed or
\* failed, keyed by the operation id.
C11_LedgerUniqueness ==
    [][\A c \in SyncClients : FinishStep(c) =>
          \A i \in 1..Len(request[c]) :
             Cardinality({l \in ledger' :
                             /\ l.client_id = c
                             /\ l.id = OperationKey(request[c][i])}) = 1
      ]_vars

\* C12: when a request with a failed operation returns, the ledger holds a
\* row of the client with synced = false, a retry_count above 0 and an
\* error_message, and get_sync_status counts it: total_pending >= 1.
C12_FailedStaysPending ==
    [][\A c \in SyncClients : (FinishStep(c) /\ failed[c] # <<>>) =>
          /\ \E l \in ledger' :
                /\ l.client_id = c
                /\ ~l.synced
                /\ l.retry_count > 0
                /\ l.error_message # ""
          /\ GetSyncStatus(ledger', c).total_pending >= 1
      ]_vars

-----------------------------------------------------------------------------
(* Properties of an unreachable database *)

\* C20: a request that met the unreachable database, in an operation, in the
\* delta query or in the ledger write, ends as a request-level failure
\* (HTTP 500), not as a response listing per-operation failures.
C20_OutageFailsRequest ==
    [][\A c \in SyncClients : FinishStep(c) =>
          /\ (\E i \in 1..Len(failed[c]) :
                 failed[c][i].error = "ConnectionError") => resp'[c] = "500"
          /\ pull[c].raised => resp'[c] = "500"
          /\ (~available /\ processed[c] # <<>>) => resp'[c] = "500"
      ]_vars

-----------------------------------------------------------------------------
(* Properties of concurrent requests *)

\* C14: two UPDATEs of the same record that both read the same version of it
\* and both carry a client_timestamp not older than that version's
\* updated_at are not both applied.
C14_OneConcurrentUpdateWins ==
    \A g \in Handlers : \A h \in Handlers :
        (/\ g # h
         /\ upd[g].pc = "done" /\ upd[h].pc = "done"
         /\ upd[g].op.table_name = upd[h].op.table_name
         /\ upd[g].op.record_id = upd[h].op.record_id
         /\ upd[g].current # {}
         /\ upd[g].current = upd[h].current
         /\ \A r \in upd[g].current :
               /\ r.updated_at <= upd[g].op.client_timestamp
               /\ r.updated_at <= upd[h].op.client_timestamp)
            => ~(upd[g].ok /\ upd[h].ok)

-----------------------------------------------------------------------------
(* Properties of the response of /batch *)

\* C21: with the database reachable, a request never ends in a request-level
\* error: whatever its operations did, the ledger writes for the processed
\* ones included, it returns a response and not HTTP 500.
C21_ReachableNeverFails ==
    [][\A c \in SyncClients : (FinishStep(c) /\ available) =>
          resp'[c] \in {"200 success", "200 failures"}
      ]_vars

\* C22: no step of a request undoes what its operations applied: the steps
\* after an operation (the loop moving on, the delta query, the ledger
\* writes and the response or HTTP 500) and an operation that fails leave the
\* rows of the entity tables as they are.
C22_NoCompensatingRollback ==
    [][\A c \in SyncClients :
          /\ (pc[c] \in {"handled", "changes", "ledger"} /\ pc'[c] # pc[c])
                => store' = store
          /\ (pc[c] = "loop" /\ pc'[c] = "handled"
              /\ obs'[c].outcome = "failed") => store' = store
      ]_vars

\* C22 witness: a request ended in HTTP 500 and the entity tables hold a row
C22_Witness ==
    \E c \in SyncClients :
        /\ pc[c] = "idle"
        /\ resp[c] = "500"
        /\ store # {}

-----------------------------------------------------------------------------
(* Properties of the status request *)

\* the client's rows of a ledger that are pending
PendingOf(L, c) == {l \in L : l.client_id = c /\ ~l.synced}

\* the times at which rows of the client were synced
SyncedAtOf(L, c) ==
    {l.synced_at : l \in {m \in L : m.client_id = c /\ m.synced}} \ {0}

\* C23: the status reply reflects the ledger it was read from:
\* pending_operations maps each table with pending rows of the client to
\* their number, total_pending is the number of the client's pending rows,
\* last_sync is the newest synced_at of its synced rows (none when there is
\* none), status is up_to_date exactly when total_pending is 0; and a step
\* that marks one pending row of the client synced lowers the client's
\* total_pending by exactly one.
C23_StatusReflectsLedger ==
    [][/\ (reply' # reply /\ reply'.endpoint = "status") =>
             LET c == reply'.client_id
                 body == reply'.body
                 mine == PendingOf(ledger, c)
             IN  /\ DOMAIN body.pending_operations
                       = {l.table_name : l \in mine}
                 /\ \A t \in DOMAIN body.pending_operations :
                       body.pending_operations[t]
                          = Cardinality({l \in mine : l.table_name = t})
                 /\ body.total_pending = Cardinality(mine)
                 /\ IF SyncedAtOf(ledger, c) = {} THEN body.last_sync = 0
                    ELSE /\ body.last_sync \in SyncedAtOf(ledger, c)
                         /\ \A t \in SyncedAtOf(ledger, c) :
                               t <= body.last_sync
                 /\ body.status = "up_to_date" <=> body.total_pending = 0
                 /\ body.status \in {"up_to_date", "pending_sync"}
       /\ \A c \in StatusClients :
             (\E l \in PendingOf(ledger, c) :
                 PendingOf(ledger', c) = PendingOf(ledger, c) \ {l})
               => GetSyncStatus(ledger', c).total_pending
                     = GetSyncStatus(ledger, c).total_pending - 1
      ]_vars

\* C23 witness: a reply that counts one pending row of the client and gives
\* the time a row of it was marked synced, while the ledger holds a pending
\* row of another client for the same table
C23_Witness ==
    /\ reply.endpoint = "status"
    /\ reply.body.total_pending = 1
    /\ reply.body.last_sync = 2
    /\ \E l \in ledger : \E m \in ledger :
          /\ l.client_id = reply.client_id /\ ~l.synced
          /\ m.client_id # reply.client_id /\ ~m.synced
          /\ m.table_name = l.table_name

-----------------------------------------------------------------------------
(* Properties of a request's own writes *)

\* the rows a request's processed operations wrote that are still as they
\* wrote them
OwnRows(c) == {w.row : w \in wrote[c]} \cap store

\* C24: the delta query of a request treats the rows its own operations
\* created or updated alike: all of them are in server_changes or none is.
C24_OwnWritesAlike ==
    [][\A c \in SyncClients : PullStep(c) =>
          \/ OwnRows(c) \subseteq Range(server_changes'[c])
          \/ OwnRows(c) \cap Range(server_changes'[c]) = {}
      ]_vars

\* C27: an UPDATE with a payload of a record whose current version was
\* written by an earlier UPDATE of that record in the same request, with a
\* client_timestamp not after this one's, is processed.
C27_OwnWriteNoConflict ==
    \A c \in SyncClients :
        (obs[c].operation = "UPDATE" /\ obs[c].data = "FullData"
         /\ obs[c].own)
            => obs[c].outcome = "processed"

\* C25: when a request returns, every row of an entity type the delta query
\* covers that was written after the timestamp the query ran with and not
\* after the sync_timestamp of the response is in the response's
\* server_changes; so a client that asks next with that sync_timestamp has
\* been shown every write up to it.
C25_WatermarkCompleteness ==
    [][\A c \in SyncClients : (FinishStep(c) /\ resp'[c] # "500") =>
          \A r \in store :
             (/\ r.table \in Tracked
              /\ r.updated_at > pull[c].since
              /\ r.updated_at <= sync_timestamp'[c])
                => r \in Range(server_changes[c])
      ]_vars

-----------------------------------------------------------------------------
(* Properties of DELETE *)

\* C26: a DELETE of an existing record of a registered entity is processed
\* whatever its client_timestamp, and the record is gone afterwards.
C26_DeleteUnconditional ==
    \A c \in SyncClients :
        (obs[c].operation = "DELETE" /\ obs[c].table_name \in Tables
         /\ obs[c].existed)
            => (obs[c].outcome = "processed" /\ obs[c].found = 0)

-----------------------------------------------------------------------------
(* Properties of conflict resolution *)

\* does a ledger row have the record_id and table_name of a listed conflict
Listed(l, conflicts) ==
    \E i \in 1..Len(conflicts) :
        /\ conflicts[i].record_id = l.record_id
        /\ conflicts[i].table_name = l.table_name

\* C29: a resolve-conflicts request leaves the entity tables as they are;
\* with client_wins, merge or manual it leaves the ledger as it is; with
\* server_wins it changes only ledger rows with the record_id and table_name
\* of a listed conflict; and whatever the strategy its resolved_conflicts
\* lists every conflict of the request.
C29_ResolveFrameAndEcho ==
    [][(reply' # reply /\ reply'.endpoint = "resolve") =>
          /\ store' = store
          /\ gen' = gen
          /\ reply'.resolution_strategy # "server_wins" => ledger' = ledger
          /\ {l.id : l \in ledger'} = {l.id : l \in ledger}
          /\ \A l \in ledger :
                l \notin ledger' => Listed(l, reply'.conflicts)
          /\ reply'.resolved_conflicts
                = [i \in 1..Len(reply'.conflicts) |->
                      ResolvedEntry(reply'.conflicts[i],
                                    reply'.resolution_strategy)]
      ]_vars

-----------------------------------------------------------------------------
(* Properties of the hand-over between _handle_create and _handle_update *)

\* the operations a request can carry on the contended table
ContendedInputs ==
    [operation : {"CREATE", "UPDATE"}, table_name : ContendedTables,
     record_id : ClientChosenIds \cup (1..gen), data : Payloads,
     client_timestamp : 0..MaxClock]

\* C28: the hand-overs between _handle_create and _handle_update end: an
\* operation that runs with no other writer between its awaits hands over at
\* most once; one that interleaves with creates and deletes of other
\* requests hands over at most twice, and after the second hand-over the
\* record is not there, so _handle_create goes on to create and the
\* operation ends; a handler at a read of the record can always take it.
C28_DelegationEnds ==
    /\ \A op \in ContendedInputs :
          ProcessSingleOperation(DB(store, clock, gen), op).hops <= 1
    /\ \A h \in Handlers :
          /\ upd[h].hops <= 2
          /\ upd[h].hops = 2 =>
                /\ upd[h].pc \in {"create_get", "insert", "done"}
                /\ upd[h].pc = "create_get" =>
                      Rows(store, upd[h].op.table_name,
                           upd[h].op.record_id) = {}
          /\ upd[h].pc = "create_get" => ENABLED CreateGet(h)
          /\ upd[h].pc = "update_get" => ENABLED UpdateGet(h)

\* C28 witness: an operation whose record was deleted between the two reads
\* handed over twice and ended with a record created
C28_Witness ==
    \E h \in Handlers :
        /\ upd[h].pc = "done"
        /\ upd[h].hops = 2
        /\ upd[h].ok

-----------------------------------------------------------------------------
(* Properties of the connection pool *)

\* C30: whatever the interleaving of the callers of initialize() and
\* get_connection(), create_pool returns at most one pool; a call that
\* returns finds the pool assigned and a connection comes from that pool;
\* only the holder of the lock creates or tests; when create_pool raises the
\* caller gets the error, the pool stays unassigned and the lock is free, and
\* a call that starts with the pool unassigned and the lock free goes on to
\* create_pool again.
C30_PoolCreatedOnce ==
    [][/\ mgr'.made <= 1
       /\ \A k \in Callers :
             /\ mgr'.callers[k].result = "ok" => mgr'.pool # 0
             /\ mgr'.callers[k].conn # 0 => mgr'.callers[k].conn = mgr'.pool
             /\ mgr'.callers[k].pc \in {"creating", "testing"}
                   => mgr'.lock = k
             /\ (mgr.callers[k].pc = "creating"
                 /\ mgr'.callers[k].result = "create failed")
                   => (mgr'.pool = 0 /\ mgr'.lock = "free"
                       /\ mgr'.callers[k].pc = "returned")
             /\ (mgr.callers[k].pc = "idle" /\ mgr'.callers[k].pc # "idle"
                 /\ mgr.pool = 0 /\ mgr.lock = "free")
                   => mgr'.callers[k].pc = "creating"
      ]_vars

\* C30 witness: create_pool raised once and returned a pool once, and two
\* coroutines hold a connection of that pool
C30_Witness ==
    /\ mgr.attempts = 2
    /\ mgr.made = 1
    /\ \A k \in Callers :
          /\ mgr.callers[k].call = "get_connection"
          /\ mgr.callers[k].pc = "returned"
          /\ mgr.callers[k].conn = mgr.pool

====
